---- MODULE Spec2Model ----
(***************************************************************************)
(* State-machine model of src/check.py, the Royal Greenhouses ticket       *)
(* watcher.  One invocation of main() is one "run"; the state file, the    *)
(* clock and a few history variables live across runs.                     *)
(*                                                                         *)
(* Strings are modelled as sequences of tokens (a token is a substring     *)
(* that the code never splits: a scheme, a separator, a host, a word).     *)
(* A page's normalized text is the sequence of its words; an href is the   *)
(* sequence of its tokens.  sha256 is modelled as an injective tagging of  *)
(* its input.  The JSON round trip of save_state/load_state is the         *)
(* identity on the values the program stores (ints, strings, null, dicts). *)
(***************************************************************************)
EXTENDS Integers, Sequences, FiniteSets, TLC

(***************************************************************************)
(* Bounds of the model.                                                    *)
(***************************************************************************)
MaxTicks == 4
TickSeconds == 3600

(***************************************************************************)
(* Program constants.                                                      *)
(***************************************************************************)
HOME_URL == "https://www.koninklijke-serres-royales.be/fr/"
TICKETS_URL == "https://www.koninklijke-serres-royales.be/fr/tickets"
\* Mutant of URLS: the tickets page comes first.
URLS_TicketsFirst == <<TICKETS_URL, HOME_URL>>

URLS == <<HOME_URL, TICKETS_URL>>

\* HOME_URL as the token sequence absolute_url works on.
HOME_URL_tokens == <<"https://", "www.koninklijke-serres-royales.be", "/", "fr", "/">>

\* The marker phrase (accents transliterated).
NEEDLE_PHRASE == "La date exacte de la mise en vente des tickets sera communiquee ulterieurement"
HEARTBEAT_EVERY_SECONDS == 2 * 60 * 60

None == "None"

(***************************************************************************)
(* String helpers on token sequences.                                      *)
(***************************************************************************)
\* str.lower() on one token: the tokens of the model that hold upper case.
Lower(t) ==
    CASE t = NEEDLE_PHRASE -> "la date exacte de la mise en vente des tickets sera communiquee ulterieurement"
      [] t = "LA DATE EXACTE DE LA MISE EN VENTE DES TICKETS SERA COMMUNIQUEE ULTERIEUREMENT"
            -> "la date exacte de la mise en vente des tickets sera communiquee ulterieurement"
      [] t = "Booking" -> "booking"
      [] t = "JavaScript:" -> "javascript:"
      [] OTHER -> t

\* k in t, for a keyword k and a lower-cased token t of the model.
Contains(t, k) ==
    \/ t = k
    \/ <<t, k>> \in { <<"tickets", "ticket">>,
                      <<"tickets-billetterie", "ticket">>,
                      <<"tickets-billetterie", "billetterie">>,
                      <<"booking", "book">>,
                      <<"shop.example", "shop">> }

\* All tokens of hrefs and URLs, in ascending string order.
TokenOrder ==
    <<"\n", " ", "#", "/", "//", "01", "02", "03", "04", "05", "06", "07", "08",
      "09", "10", "11", "Booking", "JavaScript:", "fr", "https:", "https://",
      "info", "shop.example", "ticket", "tickets", "tickets-billetterie",
      "www.koninklijke-serres-royales.be", "x">>

RankOf ==
    [t \in { TokenOrder[i] : i \in 1..Len(TokenOrder) } |->
        CHOOSE i \in 1..Len(TokenOrder) : TokenOrder[i] = t]

Rank(t) == RankOf[t]

\* a < b in the order sorted() uses on strings.
RECURSIVE LexLess(_, _)
LexLess(a, b) ==
    IF b = <<>> THEN FALSE
    ELSE IF a = <<>> THEN TRUE
    ELSE IF Head(a) = Head(b) THEN LexLess(Tail(a), Tail(b))
    ELSE Rank(Head(a)) < Rank(Head(b))

\* x put at its place in the ascending, duplicate-free sequence xs.
RECURSIVE Insert(_, _)
Insert(x, xs) ==
    IF xs = <<>> THEN <<x>>
    ELSE IF x = Head(xs) THEN xs
    ELSE IF LexLess(x, Head(xs)) THEN <<x>> \o xs
    ELSE <<Head(xs)>> \o Insert(x, Tail(xs))

\* sorted(set(xs)): the distinct elements of xs in ascending order.
RECURSIVE sorted_set(_)
sorted_set(xs) ==
    IF xs = <<>> THEN <<>> ELSE Insert(Head(xs), sorted_set(Tail(xs)))

\* "\n".join(xs) for a sequence xs of strings.
RECURSIVE join_newline(_)
join_newline(xs) ==
    IF xs = <<>> THEN <<>>
    ELSE IF Len(xs) = 1 THEN xs[1]
    ELSE xs[1] \o <<"\n">> \o join_newline(Tail(xs))

\* xs[:n]
Prefix(xs, n) == SubSeq(xs, 1, IF Len(xs) < n THEN Len(xs) ELSE n)

\* sha256(s).hexdigest(): injective on the strings of the model; never "".
sha256(s) == <<"sha256">> \o s

(***************************************************************************)
(* Normalizer.  A raw HTML document is a sequence of elements              *)
(*   [tag, text, href]: tag "text" is character data, tag "a" an anchor    *)
(*   with its label, tags "script"/"style" a block whose content is text;  *)
(*   href is the value of an href="..." attribute found in the element's   *)
(*   raw markup (<<>> when there is none).                                 *)
(***************************************************************************)
\* normalize_text: script/style blocks and tags removed, whitespace
\* collapsed and trimmed; the result is the sequence of the words left.
RECURSIVE normalize_text(_)
normalize_text(html) ==
    IF html = <<>> THEN <<>>
    ELSE (IF Head(html).tag \in {"script", "style"} THEN <<>> ELSE Head(html).text)
         \o normalize_text(Tail(html))

\* str.strip() on an href.
RECURSIVE LStrip(_)
LStrip(h) == IF h # <<>> /\ Head(h) = " " THEN LStrip(Tail(h)) ELSE h

RECURSIVE RStrip(_)
RStrip(h) == IF h # <<>> /\ h[Len(h)] = " " THEN RStrip(SubSeq(h, 1, Len(h) - 1)) ELSE h

Strip(h) == RStrip(LStrip(h))

\* The filter of extract_links on one stripped href.
KeepHref(h) ==
    ~ (h = <<>> \/ Head(h) = "#" \/ Lower(Head(h)) = "javascript:")

\* extract_links: the regex scans the raw markup, script blocks included;
\* encounter order and duplicates are kept.
RECURSIVE extract_links(_)
extract_links(html) ==
    IF html = <<>> THEN <<>>
    ELSE LET h == Strip(Head(html).href)
         IN  (IF Head(html).href # <<>> /\ KeepHref(h) THEN <<h>> ELSE <<>>)
             \o extract_links(Tail(html))

(***************************************************************************)
(* Link heuristics.                                                        *)
(***************************************************************************)
\* The keywords of looks_like_ticket_link ("reservation" stands for both its
\* spellings, with and without the accent).
TicketKeywords ==
    {"ticket", "billetterie", "reservation", "book", "booking", "checkout", "shop"}

looks_like_ticket_link(href) ==
    \E i \in 1..Len(href) : \E k \in TicketKeywords : Contains(Lower(href[i]), k)

\* str.rstrip("/") and str.lstrip("/")
RECURSIVE RStripSlash(_)
RStripSlash(s) ==
    IF s # <<>> /\ s[Len(s)] \in {"/", "//"} THEN RStripSlash(SubSeq(s, 1, Len(s) - 1)) ELSE s

RECURSIVE LStripSlash(_)
LStripSlash(s) ==
    IF s # <<>> /\ Head(s) \in {"/", "//"} THEN LStripSlash(Tail(s)) ELSE s

\* re.match(r"^(https?://[^/]+)", base): scheme and host of base, or base.
SchemeHost(base) ==
    IF Len(base) >= 2 /\ base[1] \in {"http://", "https://"} /\ base[2] \notin {"/", "//"}
    THEN SubSeq(base, 1, 2)
    ELSE base

absolute_url(base, href) ==
    IF href # <<>> /\ Head(href) \in {"http://", "https://"} THEN href
    ELSE IF href # <<>> /\ Head(href) = "//" THEN <<"https:">> \o href
    ELSE IF href # <<>> /\ Head(href) = "/" THEN SchemeHost(base) \o href
    ELSE RStripSlash(base) \o <<"/">> \o LStripSlash(href)

(***************************************************************************)
(* The remote site: what a GET of a watched URL can find there.            *)
(***************************************************************************)
Txt(w) == [tag |-> "text", text |-> <<w>>, href |-> <<>>]
A(h, label) == [tag |-> "a", text |-> label, href |-> h]
Script(h) == [tag |-> "script", text |-> <<"var x">>, href |-> h]

Resource(st, et, lm, html) ==
    [status |-> st, etag |-> et, last_modified |-> lm, html |-> html]

\* Landing page: marker present, no ticket-like link.
HPlain ==
    Resource(200, "e1", None,
             << Txt(NEEDLE_PHRASE), A(<<"/", "fr", "/", "info">>, <<"Info">>),
                A(<<"#", "tickets">>, <<>>), Script(<<"JavaScript:", "x">>) >>)
\* Landing page: marker present (other case), a ticket link, a duplicate.
HWeak ==
    Resource(200, None, "m1",
             << Txt("LA DATE EXACTE DE LA MISE EN VENTE DES TICKETS SERA COMMUNIQUEE ULTERIEUREMENT"),
                A(<<"/", "fr", "/", "tickets-billetterie">>, <<"Tickets">>),
                A(<<"/", "fr", "/", "info">>, <<"Info">>),
                A(<<" ", "/", "fr", "/", "tickets-billetterie", " ">>, <<>>) >>)
\* The landing page HWeak with its markup rearranged: the same text, the
\* same links in another order and without the duplicate, a new date.
HShuffled ==
    Resource(200, None, "m3",
             << Txt("LA DATE EXACTE DE LA MISE EN VENTE DES TICKETS SERA COMMUNIQUEE ULTERIEUREMENT"),
                Txt("Tickets"),
                A(<<"/", "fr", "/", "info">>, <<"Info">>),
                A(<<"/", "fr", "/", "tickets-billetterie">>, <<>>) >>)
\* Landing page: marker gone, ticket links of every shape.
HStrong ==
    Resource(200, "e2", "m2",
             << Txt("Ouvert"), A(<<"tickets">>, <<"Tickets">>),
                A(<<"//", "shop.example", "/", "x">>, <<"Shop">>),
                A(<<"https://", "x", "/", "Booking">>, <<>>),
                A(<<"/", "fr", "/", "info">>, <<"Info">>) >>)
\* Landing page with no text at all, one ticket link.
HEmptyText ==
    Resource(200, None, None, << A(<<"/", "fr", "/", "tickets">>, <<>>) >>)
\* Landing page with eleven ticket links, marker gone.
HMany ==
    Resource(200, "e3", None,
             << Txt("Ouvert") >>
             \o [i \in 1..11 |->
                   A(<<"/", "ticket", SubSeq(TokenOrder, 6, 16)[12 - i]>>, <<>>)])
HDown == Resource(500, None, None, <<>>)

T404 == Resource(404, None, None, << Txt("Not found") >>)
T410 == Resource(410, "g1", None, << Txt("Gone") >>)
\* Tickets page announcing the sale for later.
TNeedle ==
    Resource(200, "t1", None,
             << Txt(NEEDLE_PHRASE), Txt("checkout"), Txt("cart") >>)
\* Tickets page with the sale open: two purchase keywords, no marker, and no
\* validator, so that it is fetched in full every time.
TOpen ==
    Resource(200, None, None,
             << Txt("book your slot"), Txt("checkout"),
                A(<<"//", "shop.example", "/", "x">>, <<>>) >>)
\* A 3xx answer that carries no Location: requests.get returns it as it is.
T300 == Resource(300, None, None, << Txt("Multiple Choices") >>)
T503 == Resource(503, None, None, <<>>)
\* A success other than 200: the page as a transforming proxy relays it.
T203 == Resource(203, None, None, << Txt("Tickets") >>)

HomePool == <<HPlain, HWeak, HStrong, HEmptyText, HMany, HDown, HShuffled>>
TicketsPool == <<T404, T410, TNeedle, TOpen, T300, T503, T203>>
Pool(url) == IF url = HOME_URL THEN HomePool ELSE TicketsPool

\* The origin server's answer to a conditional GET (RFC 7232): 304 when the
\* resource is a success and the validator sent matches the current one.
ServerResponse(res, req) ==
    IF /\ res.status \in 200..299
       /\ \/ req.if_none_match # None /\ req.if_none_match = res.etag
          \/ /\ req.if_none_match = None
             /\ req.if_modified_since # None
             /\ req.if_modified_since = res.last_modified
    THEN [res EXCEPT !.status = 304, !.html = <<>>]
    ELSE res

(***************************************************************************)
(* The persisted state and the page records.                               *)
(***************************************************************************)
NoHeaders == [etag |-> None, last_modified |-> None]

\* pages.get(url, {}): the record of a URL never stored, with the defaults
\* the .get() calls of main give its fields.
NoRec ==
    [present |-> FALSE, headers |-> NoHeaders, last_status |-> 0,
     last_hash |-> <<>>, last_links_hash |-> <<>>]

UrlSet == {HOME_URL, TICKETS_URL}

\* The state file: exists, and parses when its content is a whole JSON
\* document, whose fields are then pages and last_heartbeat_ts.
\* No state file on disk.
NoFile ==
    [exists |-> FALSE, parses |-> FALSE,
     pages |-> [u \in UrlSet |-> NoRec], last_heartbeat_ts |-> 0]

\* The state file after open(STATE_FILE, "w") and a part of the dump only:
\* empty, or a strict prefix of the document.  No such content parses.
Truncated ==
    [exists |-> TRUE, parses |-> FALSE,
     pages |-> [u \in UrlSet |-> NoRec], last_heartbeat_ts |-> 0]

\* Mutant of load_state: every exception is taken for a missing file.
load_state_ErrorsAsFirstRun(f) ==
    IF f.exists /\ f.parses
    THEN [raised |-> FALSE,
          state |-> [pages |-> f.pages, last_heartbeat_ts |-> f.last_heartbeat_ts],
          is_first_run |-> FALSE]
    ELSE [raised |-> FALSE,
          state |-> [pages |-> [u \in UrlSet |-> NoRec], last_heartbeat_ts |-> 0],
          is_first_run |-> TRUE]

\* Mutant of load_state: a state file is read, and the run is a first run
\* all the same.
load_state_AlwaysFirst(f) ==
    IF f.exists /\ ~ f.parses
    THEN [raised |-> TRUE,
          state |-> [pages |-> [u \in UrlSet |-> NoRec], last_heartbeat_ts |-> 0],
          is_first_run |-> FALSE]
    ELSE [raised |-> FALSE,
          state |-> [pages |-> f.pages, last_heartbeat_ts |-> f.last_heartbeat_ts],
          is_first_run |-> TRUE]

\* load_state: (state, is_first_run), or an exception other than
\* FileNotFoundError (json.JSONDecodeError here), which load_state lets through.
load_state(f) ==
    IF ~ f.exists
    THEN [raised |-> FALSE,
          state |-> [pages |-> [u \in UrlSet |-> NoRec], last_heartbeat_ts |-> 0],
          is_first_run |-> TRUE]
    ELSE IF ~ f.parses
    THEN [raised |-> TRUE,
          state |-> [pages |-> [u \in UrlSet |-> NoRec], last_heartbeat_ts |-> 0],
          is_first_run |-> FALSE]
    ELSE [raised |-> FALSE,
          state |-> [pages |-> f.pages, last_heartbeat_ts |-> f.last_heartbeat_ts],
          is_first_run |-> FALSE]

\* Mutant of save_state: the pages are not written.
save_state_NoPages(st) ==
    [exists |-> TRUE, parses |-> TRUE, pages |-> [u \in UrlSet |-> NoRec],
     last_heartbeat_ts |-> st.last_heartbeat_ts]

\* save_state: the content of the state file after the dump.
save_state(st) ==
    [exists |-> TRUE, parses |-> TRUE,
     pages |-> st.pages, last_heartbeat_ts |-> st.last_heartbeat_ts]

(***************************************************************************)
(* ConditionalFetcher.                                                     *)
(***************************************************************************)
\* Mutant of RequestHeaders: the stored validators are not sent.
RequestHeaders_Unconditional(prev_headers) ==
    [if_none_match |-> None, if_modified_since |-> None]

\* The conditional headers fetch sends: a validator is sent when truthy.
RequestHeaders(prev_headers) ==
    [if_none_match |-> prev_headers.etag,
     if_modified_since |-> prev_headers.last_modified]

\* Mutant of raise_for_status: no status raises.
raise_for_status_Never(status) == FALSE

\* Response.raise_for_status(): raises for 4xx and 5xx only.
raise_for_status(status) == 400 <= status /\ status < 600

\* fetch(url, prev_headers) when the remote holds resource res.  A None text
\* or link list is <<>>: main reads both as empty.
fetch(prev_headers, res) ==
    LET r == ServerResponse(res, RequestHeaders(prev_headers))
        new_headers == [etag |-> r.etag, last_modified |-> r.last_modified]
    IN  IF r.status = 304
        THEN [raised |-> FALSE, status |-> 304, headers |-> prev_headers,
              text |-> <<>>, links |-> <<>>]
        ELSE IF r.status \in {404, 410}
        THEN [raised |-> FALSE, status |-> r.status, headers |-> new_headers,
              text |-> <<>>, links |-> <<>>]
        ELSE IF raise_for_status(r.status)
        THEN [raised |-> TRUE, status |-> r.status, headers |-> new_headers,
              text |-> <<>>, links |-> <<>>]
        ELSE [raised |-> FALSE, status |-> r.status, headers |-> new_headers,
              text |-> normalize_text(r.html), links |-> extract_links(r.html)]

(***************************************************************************)
(* The body of main's loop over URLS.                                      *)
(***************************************************************************)
\* Mutant of links_hash: the links are hashed in encounter order.
links_hash_Ordered(links) == sha256(join_newline(links))

links_hash(links) == sha256(join_newline(sorted_set(links)))

NewRecord(result) ==
    [present |-> TRUE, headers |-> result.headers, last_status |-> result.status,
     last_hash |-> sha256(result.text), last_links_hash |-> links_hash(result.links)]

\* Mutant of UpdatedPages: the "continue" on a 304 is missing.
UpdatedPages_No304Skip(pages, url, result) ==
    [pages EXCEPT ![url] = NewRecord(result)]

\* A 304 leaves the record alone ("continue"); any other result replaces it.
UpdatedPages(pages, url, result) ==
    IF result.status = 304 THEN pages
    ELSE [pages EXCEPT ![url] = NewRecord(result)]

\* Mutant of IsChanged: only the status is compared.
IsChanged_StatusOnly(prev, result) ==
    result.status # 304 /\ result.status # prev.last_status

\* The test that appends url to changed_urls (never reached on a 304).
IsChanged(prev, result) ==
    /\ result.status # 304
    /\ \/ result.status # prev.last_status
       \/ sha256(result.text) # prev.last_hash
       \/ links_hash(result.links) # prev.last_links_hash

(***************************************************************************)
(* HeartbeatGate and the signal rules.                                     *)
(***************************************************************************)
\* Mutant of ShouldBeat: any elapsed time is enough.
ShouldBeat_AnyElapsed(ts, last) == (ts - last) > 0

ShouldBeat(ts, last) == (ts - last) >= HEARTBEAT_EVERY_SECONDS

\* Mutant of was_missing: the prior status is not looked at.
was_missing_Always(prev_status) == TRUE

was_missing(prev_status) == prev_status \in {0, 404, 410}
is_back(now_status) == now_status = 200

\* Mutant of SuppressSignals: the first-run return is missing.
SuppressSignals_Never(first) == FALSE

\* "if is_first_run: return" after the save.
SuppressSignals(first) == first

\* candidate_links: the resolved ticket-like links, deduplicated, sorted, cut.
candidate_links(links) ==
    Prefix(sorted_set(SelectSeq([i \in 1..Len(links) |->
                                    IF looks_like_ticket_link(links[i])
                                    THEN absolute_url(HOME_URL_tokens, links[i])
                                    ELSE <<>>],
                                LAMBDA x : x # <<>>)),
           10)

\* Mutant of HomeChanged: the landing page need not have changed.
HomeChanged_Always(changed) == TRUE

HomeChanged(changed) == HOME_URL \in changed

\* phrase_gone_on_home: an empty (or None) text is falsy.
phrase_gone_on_home(text) ==
    /\ text # <<>>
    /\ ~ \E i \in 1..Len(text) : Lower(text[i]) = Lower(NEEDLE_PHRASE)

(***************************************************************************)
(* The state machine.                                                      *)
(***************************************************************************)
VARIABLES
    file,                 \* the state file
    now,                  \* the clock, in seconds
    ticks,                \* clock advances so far
    lastHb,               \* history: time of the last heartbeat delivered by an earlier run that saved, -1 if none
    prevRun,              \* history: how the business sends of the run before ended, and its
                          \* startup send when it was a first run that wrote no state file
    everSaved,            \* history: some run wrote the state file
    startupAt,            \* history: time of the last startup notice delivered, while no
                          \* heartbeat of a run that saved followed it; -1 otherwise
    pc,                   \* position of the current run in main
    state,                \* main: state
    loaded,               \* history: the state file as the run found it
    is_first_run,         \* main: is_first_run
    idx,                  \* main: position of the loop in URLS
    changed_urls,         \* main: changed_urls (as a set)
    tickets_prev_status,  \* main: tickets_prev_status
    tickets_now_status,   \* main: tickets_now_status, 0 for None
    home_now_text,        \* main: home_now_text, <<>> for None
    home_now_links,       \* main: home_now_links, <<>> for None
    sent,                 \* history: the tg_notify calls of this run, in order
    results,              \* history: the status each URL's fetch returned in this run, 0 if none
    picked,               \* history: the resource each fetch found, 0 if none
    saved                 \* history: save_state ran in this run

vars ==
    <<file, now, ticks, lastHb, prevRun, everSaved, startupAt, pc, state, loaded,
      is_first_run, idx, changed_urls, tickets_prev_status, tickets_now_status,
      home_now_text, home_now_links, sent, results, picked, saved>>

persistent == <<file, now, ticks, lastHb, prevRun, everSaved, startupAt>>
locals ==
    <<changed_urls, tickets_prev_status, tickets_now_status, home_now_text,
      home_now_links, idx>>
fetchlog == <<results, picked>>

EmptyState == [pages |-> [u \in UrlSet |-> NoRec], last_heartbeat_ts |-> 0]

StartTime == HEARTBEAT_EVERY_SECONDS + TickSeconds

NoSends == [startup |-> "none", reappear |-> "none", newlink |-> "none"]

Init ==
    /\ file = NoFile
    /\ now = StartTime
    /\ ticks = 0
    /\ lastHb = -1
    /\ prevRun = NoSends
    /\ everSaved = FALSE
    /\ startupAt = -1
    /\ pc = "idle"
    /\ state = EmptyState
    /\ loaded = NoFile
    /\ is_first_run = FALSE
    /\ idx = 1
    /\ changed_urls = {}
    /\ tickets_prev_status = 0
    /\ tickets_now_status = 0
    /\ home_now_text = <<>>
    /\ home_now_links = <<>>
    /\ sent = <<>>
    /\ results = [u \in UrlSet |-> 0]
    /\ picked = [u \in UrlSet |-> 0]
    /\ saved = FALSE

\* One tg_notify call; ok is whether the post succeeded.
Msg(kind, ok, links) == [kind |-> kind, ok |-> ok, at |-> now, links |-> links]

\* Time passes between runs and while a run waits on the network.  A run reads
\* the clock twice, after the startup notice and in maybe_send_heartbeat: all
\* the time a first run takes is put before its first fetch, and the time any
\* other run takes before the heartbeat check is put before the run.
Tick ==
    /\ \/ pc = "idle"
       \/ pc = "fetch" /\ idx = 1 /\ is_first_run
    /\ ticks < MaxTicks
    /\ now' = now + TickSeconds
    /\ ticks' = ticks + 1
    /\ UNCHANGED <<file, lastHb, prevRun, everSaved, startupAt, pc, state, loaded,
                   is_first_run, sent, saved>>
    /\ UNCHANGED locals
    /\ UNCHANGED fetchlog

\* The scheduler starts main, any number of times: load_state, whose
\* exception ends the run, then pages and the locals set before the loop.
LoadState ==
    /\ pc = "idle"
    /\ LET l == load_state(file)
       IN  /\ state' = l.state
           /\ loaded' = file
           /\ is_first_run' = l.is_first_run
           /\ tickets_prev_status' = l.state.pages[TICKETS_URL].last_status
           /\ pc' = IF l.raised THEN "failed"
                    ELSE IF l.is_first_run THEN "startup" ELSE "fetch"
    /\ UNCHANGED <<file, now, ticks, lastHb, prevRun, everSaved, startupAt, sent, saved,
                   changed_urls, tickets_now_status, home_now_text, home_now_links, idx>>
    /\ UNCHANGED fetchlog

\* Mutant of StartupNotice: last_heartbeat_ts is not set after the notice.
StartupNotice_NoTimestamp ==
    /\ pc = "startup"
    /\ \E ok \in BOOLEAN :
          /\ sent' = Append(sent, Msg("startup", ok, <<>>))
          /\ startupAt' = IF ok THEN now ELSE startupAt
          /\ pc' = IF ok THEN "fetch" ELSE "failed"
    /\ UNCHANGED <<file, now, ticks, lastHb, prevRun, everSaved>>
    /\ UNCHANGED <<state, loaded, is_first_run, saved>>
    /\ UNCHANGED locals
    /\ UNCHANGED fetchlog

\* First run: the startup notice, then last_heartbeat_ts = now_ts().
StartupNotice ==
    /\ pc = "startup"
    /\ \E ok \in BOOLEAN :
          /\ sent' = Append(sent, Msg("startup", ok, <<>>))
          /\ startupAt' = IF ok THEN now ELSE startupAt
          /\ IF ok
             THEN /\ state' = [state EXCEPT !.last_heartbeat_ts = now]
                  /\ pc' = "fetch"
             ELSE /\ state' = state
                  /\ pc' = "failed"
    /\ UNCHANGED <<file, now, ticks, lastHb, prevRun, everSaved>>
    /\ UNCHANGED <<loaded, is_first_run, saved>>
    /\ UNCHANGED locals
    /\ UNCHANGED fetchlog

\* One iteration of the loop over URLS: fetch, then update and classify.
FetchUrl ==
    /\ pc = "fetch"
    /\ LET url == URLS[idx]
           prev == state.pages[url]
       IN  \E k \in 1..Len(Pool(url)) :
             LET result == fetch(prev.headers, Pool(url)[k])
             IN  /\ picked' = [picked EXCEPT ![url] = k]
                 /\ results' = [results EXCEPT ![url] = result.status]
                 /\ IF result.raised
                    THEN /\ pc' = "failed"
                         /\ UNCHANGED state
                         /\ UNCHANGED locals
                    ELSE /\ state' = [state EXCEPT !.pages = UpdatedPages(state.pages, url, result)]
                         /\ home_now_text' =
                               IF url = HOME_URL /\ result.status # 304
                               THEN result.text ELSE home_now_text
                         /\ home_now_links' =
                               IF url = HOME_URL /\ result.status # 304
                               THEN result.links ELSE home_now_links
                         /\ tickets_now_status' =
                               IF url = TICKETS_URL /\ result.status # 304
                               THEN result.status ELSE tickets_now_status
                         /\ changed_urls' =
                               IF IsChanged(prev, result)
                               THEN changed_urls \cup {url} ELSE changed_urls
                         /\ idx' = idx + 1
                         /\ pc' = IF idx = Len(URLS) THEN "heartbeat" ELSE "fetch"
                         /\ UNCHANGED tickets_prev_status
    /\ UNCHANGED persistent
    /\ UNCHANGED <<loaded, is_first_run, sent, saved>>

\* maybe_send_heartbeat(state)
MaybeSendHeartbeat ==
    /\ pc = "heartbeat"
    /\ IF ShouldBeat(now, state.last_heartbeat_ts)
       THEN \E ok \in BOOLEAN :
               /\ sent' = Append(sent, Msg("heartbeat", ok, <<>>))
               /\ IF ok
                  THEN /\ state' = [state EXCEPT !.last_heartbeat_ts = now]
                       /\ pc' = "save"
                  ELSE /\ state' = state
                       /\ pc' = "failed"
       ELSE /\ pc' = "save"
            /\ UNCHANGED <<sent, state>>
    /\ UNCHANGED persistent
    /\ UNCHANGED <<loaded, is_first_run, saved>>
    /\ UNCHANGED locals
    /\ UNCHANGED fetchlog

\* save_state(state), then the first-run return.
SaveState ==
    /\ pc = "save"
    /\ file' = save_state(state)
    /\ saved' = TRUE
    /\ everSaved' = TRUE
    /\ pc' = IF SuppressSignals(is_first_run) THEN "done" ELSE "reappear"
    /\ UNCHANGED <<now, ticks, lastHb, prevRun, startupAt, state, loaded,
                   is_first_run, sent>>
    /\ UNCHANGED locals
    /\ UNCHANGED fetchlog

\* How this run's send of one of the kinds ended: "none" when it sent none.
SendOf(kinds) ==
    LET hits == { j \in 1..Len(sent) : sent[j].kind \in kinds }
    IN  IF hits = {} THEN "none"
        ELSE IF \E j \in hits : ~ sent[j].ok THEN "failed" ELSE "ok"

\* The process is killed inside save_state: before the open (the file is
\* untouched), after the open that truncates the file and before the dump is
\* complete, or after the dump; its memory is gone.
CrashInSave ==
    /\ pc = "save"
    /\ \E wrote \in BOOLEAN :
          /\ file' \in IF wrote THEN {Truncated, save_state(state)} ELSE {file}
          /\ everSaved' = (everSaved \/ wrote)
    /\ pc' = "idle"
    /\ lastHb' = IF /\ file' = save_state(state)
                    /\ \E j \in 1..Len(sent) : sent[j].kind = "heartbeat" /\ sent[j].ok
                 THEN now ELSE lastHb
    /\ startupAt' = IF lastHb' # lastHb THEN -1 ELSE startupAt
    /\ prevRun' = [startup |-> IF everSaved' THEN "none" ELSE SendOf({"startup"}),
                   reappear |-> "none", newlink |-> "none"]
    /\ state' = EmptyState
    /\ loaded' = NoFile
    /\ is_first_run' = FALSE
    /\ idx' = 1
    /\ changed_urls' = {}
    /\ tickets_prev_status' = 0
    /\ tickets_now_status' = 0
    /\ home_now_text' = <<>>
    /\ home_now_links' = <<>>
    /\ sent' = <<>>
    /\ results' = [u \in UrlSet |-> 0]
    /\ picked' = [u \in UrlSet |-> 0]
    /\ saved' = FALSE
    /\ UNCHANGED <<now, ticks>>

\* Rule 2: /tickets is back.
Reappearance ==
    /\ pc = "reappear"
    /\ IF /\ tickets_now_status # 0
          /\ was_missing(tickets_prev_status)
          /\ is_back(tickets_now_status)
       THEN \E ok \in BOOLEAN :
               /\ sent' = Append(sent, Msg("reappear", ok, <<>>))
               /\ pc' = IF ok THEN "newlink" ELSE "failed"
       ELSE /\ pc' = "newlink"
            /\ UNCHANGED sent
    /\ UNCHANGED persistent
    /\ UNCHANGED <<state, loaded, is_first_run, saved>>
    /\ UNCHANGED locals
    /\ UNCHANGED fetchlog

\* Rule 3: a ticket-like link on the landing page, strong or weak.
NewLink ==
    /\ pc = "newlink"
    /\ LET cands == candidate_links(home_now_links)
       IN  IF home_now_links # <<>> /\ cands # <<>> /\ HomeChanged(changed_urls)
           THEN \E ok \in BOOLEAN :
                   /\ sent' = Append(sent,
                                     Msg(IF phrase_gone_on_home(home_now_text)
                                         THEN "strong" ELSE "weak", ok, cands))
                   /\ pc' = IF ok THEN "done" ELSE "failed"
           ELSE /\ pc' = "done"
                /\ UNCHANGED sent
    /\ UNCHANGED persistent
    /\ UNCHANGED <<state, loaded, is_first_run, saved>>
    /\ UNCHANGED locals
    /\ UNCHANGED fetchlog

\* The process exits (0 from "done", 1 from "failed"); its memory is gone.
Exit ==
    /\ pc \in {"done", "failed"}
    /\ pc' = "idle"
    /\ lastHb' = IF \E j \in 1..Len(sent) : sent[j].kind = "heartbeat" /\ sent[j].ok
                 THEN now ELSE lastHb
    /\ startupAt' = IF lastHb' # lastHb THEN -1 ELSE startupAt
    /\ prevRun' = [startup |-> IF everSaved THEN "none" ELSE SendOf({"startup"}),
                   reappear |-> SendOf({"reappear"}),
                   newlink |-> SendOf({"strong", "weak"})]
    /\ state' = EmptyState
    /\ loaded' = NoFile
    /\ is_first_run' = FALSE
    /\ idx' = 1
    /\ changed_urls' = {}
    /\ tickets_prev_status' = 0
    /\ tickets_now_status' = 0
    /\ home_now_text' = <<>>
    /\ home_now_links' = <<>>
    /\ sent' = <<>>
    /\ results' = [u \in UrlSet |-> 0]
    /\ picked' = [u \in UrlSet |-> 0]
    /\ saved' = FALSE
    /\ UNCHANGED <<file, now, ticks, everSaved>>

Next ==
    \/ Tick
    \/ LoadState
    \/ StartupNotice
    \/ FetchUrl
    \/ MaybeSendHeartbeat
    \/ SaveState
    \/ CrashInSave
    \/ Reappearance
    \/ NewLink
    \/ Exit

Spec == Init /\ [][Next]_vars

(***************************************************************************)
(* Vocabulary of the claims.  A notification is "sent" when main calls     *)
(* tg_notify with it; whether the post succeeded is the record's ok.       *)
(***************************************************************************)
Ended == pc \in {"done", "failed"}
SentOf(kinds) == { j \in 1..Len(sent) : sent[j].kind \in kinds }
Count(kinds) == Cardinality(SentOf(kinds))
LinkKinds == {"strong", "weak"}
BusinessKinds == {"reappear", "phrase", "strong", "weak"}
AbsentStatuses == {404, 410}

\* The resource the fetch of u found in this run (u was fetched).
Found(u) == Pool(u)[picked[u]]

\* Tables over the resources of the remote, computed once: the normalized
\* text and the links of each page, the outcome of an unconditional fetch of
\* each resource, and the record that outcome leaves.
TextOf == [u \in UrlSet |-> [k \in 1..Len(Pool(u)) |-> normalize_text(Pool(u)[k].html)]]
LinksOf == [u \in UrlSet |-> [k \in 1..Len(Pool(u)) |-> extract_links(Pool(u)[k].html)]]
FetchOf == [u \in UrlSet |-> [k \in 1..Len(Pool(u)) |-> fetch(NoHeaders, Pool(u)[k])]]
RecordFor == [u \in UrlSet |-> [k \in 1..Len(Pool(u)) |-> NewRecord(FetchOf[u][k])]]

\* The normalized text and the links of u's page as fetched in this run:
\* empty when the outcome carried none (304, 404, 410, an error).
PageText(u) ==
    IF picked[u] # 0 /\ results[u] \notin {304, 404, 410} /\ ~ raise_for_status(results[u])
    THEN TextOf[u][picked[u]] ELSE <<>>
PageLinks(u) ==
    IF picked[u] # 0 /\ results[u] \notin {304, 404, 410} /\ ~ raise_for_status(results[u])
    THEN LinksOf[u][picked[u]] ELSE <<>>

MarkerIn(text) == \E i \in 1..Len(text) : Lower(text[i]) = Lower(NEEDLE_PHRASE)

\* The run got as far as the signal rules / as the new-link rule.
LastKind == IF sent = <<>> THEN "none" ELSE sent[Len(sent)].kind
HeartbeatFailed == \E j \in SentOf({"heartbeat"}) : ~ sent[j].ok
LoopCompleted == idx > Len(URLS)
ReachedNewLink == pc = "done" \/ (pc = "failed" /\ LastKind \in LinkKinds)

\* ------------------------------------------------------------------ C1
\* C1: for every watched URL, if its fetch in this run returned 304, its
\* record in the run's state and in the state file is the one the run loaded,
\* and the URL is not in changed_urls.
C1_NotModifiedKeepsRecord ==
    \A u \in UrlSet :
        results[u] = 304 =>
            /\ state.pages[u] = loaded.pages[u]
            /\ file.pages[u] = loaded.pages[u]
            /\ u \notin changed_urls

\* A run that saved, got 304 for the tickets page and a change on the landing page.
C1_Witness ==
    /\ pc = "done" /\ saved
    /\ results[TICKETS_URL] = 304
    /\ HOME_URL \in changed_urls

\* ------------------------------------------------------------------ C2
\* C2: in a first run no reappearance, phrase/keyword or new-link
\* notification is sent whatever the fetches return, and the startup notice
\* is sent, once and first, and was delivered before any fetch.
C2_FirstRunSuppression ==
    is_first_run =>
        /\ Count(BusinessKinds) = 0
        /\ pc # "startup" => /\ Count({"startup"}) = 1
                             /\ sent[1].kind = "startup"
        /\ picked # [u \in UrlSet |-> 0] => sent[1].ok

\* A first run that ended well on pages which fire both rules in a later run.
C2_Witness ==
    /\ is_first_run /\ pc = "done"
    /\ results[TICKETS_URL] = 200
    /\ HOME_URL \in changed_urls
    /\ candidate_links(home_now_links) # <<>>

\* ------------------------------------------------------------------ C3
TicketsWasAbsent == loaded.pages[TICKETS_URL].last_status \in AbsentStatuses
TicketsUnchanged ==
    \/ results[TICKETS_URL] = 304
    \/ results[TICKETS_URL] = 200 /\ TICKETS_URL \notin changed_urls

\* C3 as stated: a non-first run that finds the tickets page Absent in the
\* persisted state and fetches it with 200 sends the reappearance
\* notification exactly once; a run in which the tickets page is unchanged
\* sends none.
C3_Original ==
    /\ (Ended /\ ~ is_first_run /\ TicketsWasAbsent /\ results[TICKETS_URL] = 200)
          => Count({"reappear"}) = 1
    /\ (Ended /\ TicketsUnchanged) => Count({"reappear"}) = 0

\* C3 amended: the same, for a run that reaches the signal rules, that is
\* whose heartbeat send, when one is due, did not fail (the state is saved);
\* at no point of any run is the notification sent twice.
C3_ReappearsOnce ==
    /\ (Ended /\ ~ is_first_run /\ saved /\ TicketsWasAbsent /\ results[TICKETS_URL] = 200)
          => Count({"reappear"}) = 1
    /\ Count({"reappear"}) <= 1
    /\ TicketsUnchanged => Count({"reappear"}) = 0

\* The run after one that sent the reappearance notification: the page is
\* fetched again with 200, unchanged, and nothing is sent for it.
C3_Witness ==
    /\ pc = "done" /\ prevRun.reappear = "ok"
    /\ results[TICKETS_URL] = 200
    /\ TICKETS_URL \notin changed_urls
    /\ Count({"reappear"}) = 0

\* ------------------------------------------------------------------ C4
\* The purchase-intent keywords the phrase-and-marker rule counts.
PurchaseKeywords == {"cart", "checkout", "buy", "time slot", "select", "book your slot"}
KeywordsIn(text) == { k \in PurchaseKeywords : \E i \in 1..Len(text) : Lower(text[i]) = k }

\* C4: in a non-first run that ends well and classified the tickets page as
\* changed, a phrase/keyword notification is sent if and only if the marker
\* phrase is absent from the page's normalized text and at least two distinct
\* purchase-intent keywords are present.
C4_PhraseRule ==
    (pc = "done" /\ ~ is_first_run /\ TICKETS_URL \in changed_urls) =>
        (Count({"phrase"}) >= 1
            <=> /\ ~ MarkerIn(PageText(TICKETS_URL))
                /\ Cardinality(KeywordsIn(PageText(TICKETS_URL))) >= 2)

\* ------------------------------------------------------------------ C5
\* The links the new-link rule is said to list: every extracted link is
\* resolved, the resolved ones that look like a ticket link are kept,
\* deduplicated, sorted and cut to 10.
ResolvedMatches(links) ==
    SelectSeq([i \in 1..Len(links) |-> absolute_url(HOME_URL_tokens, links[i])],
              looks_like_ticket_link)
ResolvedMatchesOf ==
    [l \in {<<>>} \cup { LinksOf[HOME_URL][k] : k \in 1..Len(HomePool) } |-> ResolvedMatches(l)]
ExpectedLinksOf ==
    [l \in DOMAIN ResolvedMatchesOf |-> Prefix(sorted_set(ResolvedMatchesOf[l]), 10)]
ExpectedLinks(links) == ExpectedLinksOf[links]
LinkRuleHolds ==
    HOME_URL \in changed_urls /\ ResolvedMatchesOf[PageLinks(HOME_URL)] # <<>>

C6_StrongOrWeak ==
    Count(LinkKinds) >= 1 =>
        /\ Count(LinkKinds) = 1
        /\ \A j \in SentOf(LinkKinds) :
              sent[j].kind = IF MarkerIn(PageText(HOME_URL)) THEN "weak" ELSE "strong"

\* ------------------------------------------------------------------ C7
SuccessOrKnown(status) ==
    status \in {304, 404, 410} \/ (200 <= status /\ status <= 299)

\* C7: a fetch that returns a status other than 304, 404, 410 and 2xx aborts
\* the run: the run is failed, the URL's record is not updated or saved, and
\* no heartbeat and no business-signal notification is sent.
C7_OtherStatusIsError ==
    \A u \in UrlSet :
        (results[u] # 0 /\ ~ SuccessOrKnown(results[u])) =>
            /\ pc = "failed"
            /\ state.pages[u] = loaded.pages[u]
            /\ file.pages[u] = loaded.pages[u]
            /\ Count(BusinessKinds \cup {"heartbeat"}) = 0

\* ------------------------------------------------------------------ C8
\* The run is past the heartbeat check.
PastGate ==
    \/ pc \in {"save", "reappear", "newlink", "done"}
    \/ pc = "failed" /\ LoopCompleted
\* last_heartbeat_ts as the check read it: the loaded one, or in a first run
\* the time set after the startup notice.
LastBeforeGate == IF is_first_run THEN sent[1].at ELSE loaded.last_heartbeat_ts

\* C8: in every run that completes the fetch loop the liveness notification
\* is sent if and only if now - last_heartbeat_ts >= 2 hours; when the state
\* is then saved it holds last_heartbeat_ts = the time of that send; and a
\* heartbeat delivered by a run is at least 2 hours after the one delivered
\* before it.
C8_HeartbeatGate ==
    /\ PastGate =>
          /\ Count({"heartbeat"}) <= 1
          /\ Count({"heartbeat"}) = 1
                <=> now - LastBeforeGate >= HEARTBEAT_EVERY_SECONDS
    /\ ~ PastGate => Count({"heartbeat"}) = 0
    /\ \A j \in SentOf({"heartbeat"}) :
          /\ pc = "save" => state.last_heartbeat_ts = sent[j].at
          /\ saved => file.last_heartbeat_ts = sent[j].at
          /\ (sent[j].ok /\ lastHb # -1) =>
                sent[j].at - lastHb >= HEARTBEAT_EVERY_SECONDS

\* A run that saved after the second heartbeat ever delivered.
C8_Witness ==
    /\ saved /\ lastHb # -1
    /\ \E j \in SentOf({"heartbeat"}) : sent[j].ok

\* ------------------------------------------------------------------ C9
\* C9 as stated: every run whose fetch loop completed saves the state,
\* whatever notification send fails in it; and a business signal whose send
\* failed in the run before is not sent again while its page is unchanged.
C9_Original ==
    /\ (Ended /\ LoopCompleted) => saved
    /\ (prevRun.reappear = "failed" /\ TICKETS_URL \notin changed_urls)
          => Count({"reappear"}) = 0
    /\ (prevRun.newlink = "failed" /\ HOME_URL \notin changed_urls)
          => Count(LinkKinds) = 0

\* C9 amended: every run whose fetch loop completed and whose heartbeat
\* send, when one is due, did not fail saves the state it holds, before any
\* business-signal notification is sent and whatever business send fails;
\* and a business signal whose send failed in the run before is not sent
\* again while its page is unchanged.
C9_PersistThenNotify ==
    /\ (Ended /\ LoopCompleted /\ ~ HeartbeatFailed) => saved
    /\ saved => /\ file.exists
                /\ file.pages = state.pages
                /\ file.last_heartbeat_ts = state.last_heartbeat_ts
    /\ Count(BusinessKinds) >= 1 => saved
    /\ (prevRun.reappear = "failed" /\ TICKETS_URL \notin changed_urls)
          => Count({"reappear"}) = 0
    /\ (prevRun.newlink = "failed" /\ HOME_URL \notin changed_urls)
          => Count(LinkKinds) = 0

\* The run after one whose new-link send failed: the landing page is fetched
\* in full again, unchanged, and the state on disk already holds it.
C9_Witness ==
    /\ pc = "done" /\ prevRun.newlink = "failed"
    /\ results[HOME_URL] = 200
    /\ HOME_URL \notin changed_urls
    /\ candidate_links(home_now_links) # <<>>
    /\ Count(LinkKinds) = 0

\* ------------------------------------------------------------------ C10
\* The persisted record of u is the one an unconditional fetch of the
\* resource now at u stores (no remote change since it was taken), and that
\* resource is a success carrying a validator.
InSync(u) ==
    /\ picked[u] # 0
    /\ loaded.pages[u].present
    /\ Found(u).status \in 200..299
    /\ Found(u).etag # None \/ Found(u).last_modified # None
    /\ loaded.pages[u] = RecordFor[u][picked[u]]

\* C10: a URL fetched with no remote change and valid validators gets 304 and
\* keeps its record in memory and on disk; a run in which this is so for
\* every URL classifies nothing as changed and sends no business-signal
\* notification.
C10_Idempotence ==
    /\ \A u \in UrlSet :
          InSync(u) => /\ results[u] = 304
                       /\ state.pages[u] = loaded.pages[u]
                       /\ file.pages[u] = loaded.pages[u]
    /\ (\A u \in UrlSet : InSync(u)) =>
          /\ changed_urls = {}
          /\ Count(BusinessKinds) = 0

\* A second run over an unchanged site that ended well, a heartbeat included.
C10_Witness ==
    /\ pc = "done" /\ saved
    /\ \A u \in UrlSet : InSync(u)
    /\ Count({"heartbeat"}) = 1

\* ------------------------------------------------------------------ C11
\* The statuses for which a fetch raises: 4xx and 5xx other than 404 and 410.
RaisingStatuses == (400..599) \ AbsentStatuses
\* A fetch of this run found a resource with such a status.
FetchRaised == \E u \in UrlSet : picked[u] # 0 /\ Found(u).status \in RaisingStatuses

\* C11: a run in which a fetch raised, on the first or on a later URL, is
\* failed, did not save, and leaves the state file as it found it; in any
\* run the file is as the run found it until the save, and once the run
\* saved it is past the save and the file holds the state then saved.
C11_FailedRunCommitsNothing ==
    /\ (pc # "idle" /\ FetchRaised) =>
          /\ pc = "failed"
          /\ ~ saved
          /\ file = loaded
    /\ (pc # "idle" /\ ~ saved) => file = loaded
    /\ saved => /\ pc \in {"reappear", "newlink", "done", "failed"}
                /\ file = save_state(state)

\* A run, not the first, that updated the landing page's record in memory
\* and then failed on the tickets page.
C11_Witness ==
    /\ pc = "failed" /\ ~ is_first_run
    /\ picked[TICKETS_URL] # 0 /\ Found(TICKETS_URL).status = 503
    /\ state.pages[HOME_URL] # loaded.pages[HOME_URL]
    /\ file = loaded /\ file.parses

\* ------------------------------------------------------------------ C12
\* The place of a notification in the order of one run.
KindRank(kind) ==
    CASE kind = "startup" -> 1
      [] kind = "heartbeat" -> 2
      [] kind = "reappear" -> 3
      [] OTHER -> 4
Processed(u) == picked[u] # 0 /\ Found(u).status \notin RaisingStatuses
AllProcessed == \A u \in UrlSet : Processed(u)

\* Where a run stands, read off the history of the run.
C12_Positions ==
    /\ Count({"startup"}) >= 1 =>
          is_first_run /\ Count({"startup"}) = 1 /\ sent[1].kind = "startup"
    /\ (is_first_run /\ \E u \in UrlSet : picked[u] # 0) =>
          sent # <<>> /\ sent[1].kind = "startup" /\ sent[1].ok
    /\ picked[TICKETS_URL] # 0 => Processed(HOME_URL)
    /\ (pc = "heartbeat" \/ PastGate) => AllProcessed
    /\ pc = "heartbeat" => Count({"heartbeat"}) = 0 /\ ~ saved
    /\ Count({"heartbeat"}) >= 1 => AllProcessed /\ Count({"heartbeat"}) = 1
    /\ saved => PastGate
    /\ pc = "save" => ~ saved /\ Count(BusinessKinds) = 0
    /\ Count(BusinessKinds) >= 1 => saved
    /\ \A i, j \in 1..Len(sent) : i < j => KindRank(sent[i].kind) < KindRank(sent[j].kind)

\* The steps main takes from one position to the next.  No position is
\* entered twice in a run: the loop index only grows, and every other step
\* leads forward.
StepsOfMain ==
    { <<"idle", "startup">>, <<"idle", "fetch">>, <<"idle", "failed">>,
      <<"startup", "fetch">>, <<"startup", "failed">>,
      <<"fetch", "fetch">>, <<"fetch", "heartbeat">>, <<"fetch", "failed">>,
      <<"heartbeat", "save">>, <<"heartbeat", "failed">>,
      <<"save", "reappear">>, <<"save", "done">>, <<"save", "idle">>,
      <<"reappear", "newlink">>, <<"reappear", "failed">>,
      <<"newlink", "done">>, <<"newlink", "failed">>,
      <<"done", "idle">>, <<"failed", "idle">> }
C12_Step ==
    /\ pc' # pc \/ idx' # idx => <<pc, pc'>> \in StepsOfMain
    /\ (pc = "fetch" /\ pc' = "fetch" /\ idx' # idx) =>
          idx' = idx + 1 /\ idx < Len(URLS)
    /\ (picked' # picked /\ pc' # "idle") =>
          /\ pc = "fetch"
          /\ \A u \in UrlSet : picked'[u] # picked[u] => u = URLS[idx] /\ picked[u] = 0
    /\ pc' = "heartbeat" => pc = "fetch" /\ idx = Len(URLS) /\ idx' = idx + 1
    /\ pc' = "save" => pc = "heartbeat"
    /\ (saved' /\ ~ saved) => pc = "save"
    /\ (file' # file) => pc = "save"
    /\ (Len(sent') > Len(sent) /\ sent'[Len(sent')].kind \in BusinessKinds) =>
          saved /\ pc \in {"reappear", "newlink"}
    /\ (Len(sent') > Len(sent) /\ sent'[Len(sent')].kind = "heartbeat") =>
          pc = "heartbeat"
    /\ (Len(sent') > Len(sent) /\ sent'[Len(sent')].kind = "startup") =>
          pc = "startup" /\ picked = [u \in UrlSet |-> 0]

\* C12: in every run the startup notice (first run only) precedes every
\* fetch; the URLs are fetched one at a time in the configured order, the
\* landing page before the tickets page; the heartbeat check is entered only
\* from the end of the loop, after every URL was processed, and so at most
\* once, and once in every run that completes the loop; the save follows
\* the heartbeat check and precedes every business-signal notification.
C12_Ordering == [] C12_Positions /\ [][C12_Step]_vars

\* A run that sent a heartbeat, the reappearance notification and a new-link
\* notification, in that order, and ended well.
C12_Witness ==
    /\ pc = "done" /\ saved /\ Len(sent) = 3
    /\ sent[1].kind = "heartbeat" /\ sent[2].kind = "reappear"
    /\ sent[3].kind \in LinkKinds

\* ------------------------------------------------------------------ C13
\* The tickets page's status in the prior state is never-seen or Absent.
TicketsWasMissing ==
    \/ ~ loaded.pages[TICKETS_URL].present
    \/ loaded.pages[TICKETS_URL].last_status \in AbsentStatuses
\* This run's fetch of the tickets page is a successful Fetched outcome.
TicketsFetched ==
    picked[TICKETS_URL] # 0 /\ Found(TICKETS_URL).status \in 200..299
        /\ results[TICKETS_URL] # 304

\* C13: in a non-first run that gets to the signal rules the reappearance
\* notification is sent if and only if the tickets URL's prior status is
\* never-seen or Absent and its fetch in this run is a successful Fetched
\* outcome; none is sent in a first run, nor when the outcome is Unchanged
\* or Absent.
C13_ReappearanceRule ==
    /\ (Ended /\ ~ is_first_run /\ saved) =>
          (Count({"reappear"}) >= 1 <=> TicketsWasMissing /\ TicketsFetched)
    /\ is_first_run => Count({"reappear"}) = 0
    /\ results[TICKETS_URL] \in {304} \cup AbsentStatuses => Count({"reappear"}) = 0

\* ------------------------------------------------------------------ C14
\* The changed predicate, on what the fetch of u found and the record the
\* run loaded for u.
ChangedExpected(u) ==
    /\ results[u] # 304
    /\ \/ Found(u).status # loaded.pages[u].last_status
       \/ sha256(PageText(u)) # loaded.pages[u].last_hash
       \/ links_hash(PageLinks(u)) # loaded.pages[u].last_links_hash

\* C14: a URL processed in a run is classified as changed if and only if
\* its fetch was not Unchanged and the status, the content fingerprint or the
\* links fingerprint differs from the stored one; a URL with no prior record
\* is always classified as changed; a URL not processed is never.
C14_ChangedPredicate ==
    \A u \in UrlSet :
        /\ Processed(u) => (u \in changed_urls <=> ChangedExpected(u))
        /\ (Processed(u) /\ ~ loaded.pages[u].present) => u \in changed_urls
        /\ ~ Processed(u) => u \notin changed_urls

\* A later run that fetched both pages in full with the statuses it had
\* stored: the landing page's content changed, the tickets page's did not.
C14_Witness ==
    /\ pc = "done" /\ ~ is_first_run
    /\ results[TICKETS_URL] = 200 /\ loaded.pages[TICKETS_URL].last_status = 200
    /\ TICKETS_URL \notin changed_urls
    /\ results[HOME_URL] = 200 /\ loaded.pages[HOME_URL].last_status = 200
    /\ HOME_URL \in changed_urls

\* ------------------------------------------------------------------ C15
SetOf(xs) == { xs[i] : i \in 1..Len(xs) }
\* The record the run loaded for u is the one a full fetch of the k-th
\* resource of u leaves, validators aside.
RecordedFrom(u, k) ==
    LET first == FetchOf[u][k]
    IN  /\ loaded.pages[u].present
        /\ ~ first.raised
        /\ loaded.pages[u].last_status = first.status
        /\ loaded.pages[u].last_hash = RecordFor[u][k].last_hash
        /\ loaded.pages[u].last_links_hash = RecordFor[u][k].last_links_hash
\* This run fetched u in full, with that resource's status and text and a
\* link list that is a permutation of its link list up to duplicates.
SamePageUpToLinkOrder(u, k) ==
    LET first == FetchOf[u][k]
    IN  /\ Processed(u) /\ results[u] # 304
        /\ results[u] = first.status
        /\ PageText(u) = first.text
        /\ SetOf(PageLinks(u)) = SetOf(first.links)

\* C15: when the stored record of a URL comes from a page and this run
\* fetches the URL with the same status, the same normalized text and a link
\* list that is a permutation of that page's up to duplicates, the links
\* fingerprint is the stored one and the URL is not classified as changed.
C15_LinkOrderInvariance ==
    \A u \in UrlSet : \A k \in 1..Len(Pool(u)) :
        (RecordedFrom(u, k) /\ SamePageUpToLinkOrder(u, k)) =>
            /\ links_hash(PageLinks(u)) = loaded.pages[u].last_links_hash
            /\ u \notin changed_urls

\* The landing page stored from HWeak is fetched as HShuffled: another link
\* list, the same set, and no change.
C15_Witness ==
    /\ pc = "done"
    /\ \E k \in 1..Len(HomePool) : HomePool[k] = HWeak /\ RecordedFrom(HOME_URL, k)
    /\ picked[HOME_URL] # 0 /\ Found(HOME_URL) = HShuffled
    /\ PageLinks(HOME_URL) # extract_links(HWeak.html)
    /\ HOME_URL \notin changed_urls

\* ------------------------------------------------------------------ C16
NothingFetched == picked = [u \in UrlSet |-> 0]

\* C16: a run is a first run if and only if it found no state file; a run
\* that found a state file which does not parse is failed before any fetch,
\* is not a first run, sent nothing, and leaves the file as it found it.
C16_ReadErrorIsNotFirstRun ==
    pc # "idle" =>
        /\ is_first_run <=> ~ loaded.exists
        /\ (loaded.exists /\ ~ loaded.parses) =>
              /\ pc = "failed"
              /\ sent = <<>>
              /\ NothingFetched
              /\ ~ saved
              /\ file = loaded

\* A run that found a truncated state file and failed.
C16_Witness ==
    /\ pc = "failed"
    /\ loaded = Truncated
    /\ file = Truncated

\* ------------------------------------------------------------------ C17
\* A step in which the process dies during the save.
CrashStep == pc = "save" /\ pc' = "idle"

\* C17: the state file, when there is one, always holds a whole document
\* that a run can load; after a crash during the save it holds either the
\* complete previous content or the complete new state.
C17_AtomicSave ==
    /\ [] (file.exists => file.parses)
    /\ [][CrashStep => file' \in {file, save_state(state)}]_vars

\* ------------------------------------------------------------------ C18
\* C18: until it saves, a run is a first run if and only if no run before
\* it wrote the state file; every first run sends the startup notice; a
\* first run that ends without saving leaves no state file; and once a run
\* has written the state file there is one, so that no later run is a first
\* run.
C18_FirstRunAcrossRuns ==
    /\ (pc # "idle" /\ ~ saved) => (is_first_run <=> ~ everSaved)
    /\ (is_first_run /\ pc # "startup") =>
          Count({"startup"}) = 1 /\ sent[1].kind = "startup"
    /\ (Ended /\ is_first_run /\ ~ saved) => ~ file.exists /\ ~ everSaved
    /\ saved => everSaved
    /\ everSaved => file.exists

\* A first run that ended well after a first run that had sent the startup
\* notice and aborted: the notice was sent again.
C18_Witness ==
    /\ pc = "done" /\ is_first_run /\ saved
    /\ prevRun.startup = "ok"
    /\ Count({"startup"}) = 1 /\ sent[1].ok

\* ------------------------------------------------------------------ C19
\* The record one response for resource r gives: its validators, its status,
\* and the fingerprints of its text and links, which are empty for 404/410.
RecordOf(r) ==
    LET absent == r.status \in AbsentStatuses
    IN  [present |-> TRUE,
         headers |-> [etag |-> r.etag, last_modified |-> r.last_modified],
         last_status |-> r.status,
         last_hash |-> sha256(IF absent THEN <<>> ELSE normalize_text(r.html)),
         last_links_hash |->
             sha256(join_newline(sorted_set(IF absent THEN <<>> ELSE extract_links(r.html))))]
PersistedRecords ==
    { u \in UrlSet : file.exists /\ file.parses /\ file.pages[u].present }

\* The stored status is a success or an Absent one: not 304, not an Error.
StoredStatusIsAnOutcome ==
    \A u \in PersistedRecords : SuccessOrKnown(file.pages[u].last_status)
                                    /\ file.pages[u].last_status # 304
\* Every persisted record is, as a whole, the record of one response.
RecordFromOneResponse ==
    \A u \in PersistedRecords :
        \E k \in 1..Len(Pool(u)) : file.pages[u] = RecordOf(Pool(u)[k])
\* A persisted Absent record holds the fingerprints of the empty text and of
\* the empty link set.
AbsentRecordIsEmpty ==
    \A u \in PersistedRecords :
        file.pages[u].last_status \in AbsentStatuses =>
            /\ file.pages[u].last_hash = sha256(<<>>)
            /\ file.pages[u].last_links_hash = sha256(<<>>)

\* C19: in every persisted state each page record's status is never 304
\* and never an Error status, the record comes as a whole from one fetch
\* response, and an Absent record holds the fingerprints of the empty text
\* and of the empty link set.
C19_RecordConsistency ==
    /\ StoredStatusIsAnOutcome
    /\ RecordFromOneResponse
    /\ AbsentRecordIsEmpty

\* ------------------------------------------------------------------ C20
\* C20: a first run sets last_heartbeat_ts to the time of its startup
\* notice; a first run sends nothing but the startup notice and, when due,
\* a heartbeat, and when it gets to the heartbeat check less than 2 hours
\* after the notice the notice is all it sends; and a heartbeat sent while no
\* heartbeat was delivered and saved before is at least 2 hours after the
\* startup notice.
C20_NoHeartbeatOnFirstRun ==
    /\ (is_first_run /\ pc \in {"fetch", "heartbeat"}) =>
          state.last_heartbeat_ts = sent[1].at
    /\ is_first_run => \A j \in 1..Len(sent) : sent[j].kind \in {"startup", "heartbeat"}
    /\ (is_first_run /\ PastGate /\ now - sent[1].at < HEARTBEAT_EVERY_SECONDS) =>
          Len(sent) = 1 /\ sent[1].kind = "startup"
    /\ \A j \in SentOf({"heartbeat"}) :
          /\ lastHb = -1 => startupAt # -1
          /\ startupAt # -1 => sent[j].at - startupAt >= HEARTBEAT_EVERY_SECONDS

\* The first heartbeat ever, sent by a later run at least 2 hours after the
\* startup notice of a first run that sent the notice alone.
C20_Witness ==
    /\ pc = "done" /\ ~ is_first_run /\ lastHb = -1
    /\ Count({"heartbeat"}) = 1 /\ sent[1].ok
    /\ startupAt # -1
    /\ now - startupAt >= HEARTBEAT_EVERY_SECONDS

====
